---- MODULE Spec2Model ----
(***************************************************************************)
(* Layer-1 ingestion pipeline of datamino/new-etl-pipeline:                *)
(*   locate -> read (strategy cascade) -> normalize -> write parquet parts *)
(*   -> validate schema, orchestrated by a Prefect flow with task retries. *)
(*                                                                         *)
(* Specifications:                                                         *)
(*   SpecWriter    calls of write_parquet_parts on one per-date directory  *)
(*   SpecValidator calls of validate_output_schema on arbitrary directories*)
(*   SpecReader    calls of read_raw_with_polars, one strategy per step    *)
(*   SpecNormalize calls of normalize_dataframe_to_schema on raw tables    *)
(*   Spec          runs of layer1_flow (tasks, retries, reruns)            *)
(***************************************************************************)
EXTENDS Integers, Sequences, FiniteSets, TLC

VARIABLES
    outDir,     \* the per-date output directory: [exists, files]
    wr,         \* the last call of write_parquet_parts: inputs, files written, outcome
    vr,         \* the last call of validate_output_schema: directory inspected, outcome
    rsrc,       \* read_raw_with_polars: the file at raw_path
    rpc,        \* read_raw_with_polars: where the call is
    temp,       \* read_raw_with_polars: the temp file of this call (temp_csv)
    tried,      \* read_raw_with_polars: the strategies attempted so far, in order
    rres,       \* read_raw_with_polars: what the call returned or raised
    fpc,        \* layer1_flow: the task the run is at, or how it ended
    inputFile,  \* the file at input_dir / filename for the processing date
    attempts,   \* layer1_flow: attempts started so far, per task
    failures,   \* layer1_flow: attempts that raised so far, per task
    slept,      \* layer1_flow: seconds spent waiting between attempts
    failedAt,   \* layer1_flow: the task whose failure ended the run
    flow_df,        \* layer1_flow: df, the table task_read returned
    normalized_df,  \* layer1_flow: the table task_normalize returned
    nr          \* the last calls of normalize_dataframe_to_schema: inputs, results

writerVars == <<outDir, wr, vr>>
readerVars == <<rsrc, rpc, temp, tried, rres>>
flowVars == <<fpc, inputFile, attempts, failures, slept, failedAt, flow_df, normalized_df>>
vars == <<outDir, wr, vr, rsrc, rpc, temp, tried, rres,
          fpc, inputFile, attempts, failures, slept, failedAt, flow_df, normalized_df,
          nr>>

(***************************************************************************)
(* Bounds of the model.                                                    *)
(***************************************************************************)
MaxRows  == 3       \* tables have 0..MaxRows rows
MaxChunk == 2       \* configured chunk_size ranges over 1..MaxChunk

\* row contents that tell the tables of different runs apart
Seeds == {1, 2}

(***************************************************************************)
(* Tables (polars DataFrame).  A cell is null, an integer or a string.     *)
(***************************************************************************)
Null     == [t |-> "null", i |-> 0, s |-> ""]
Str(x)   == [t |-> "str",  i |-> 0, s |-> x]
Num(n)   == [t |-> "int",  i |-> n, s |-> ""]

Table(cols, rows) == [columns |-> cols, rows |-> rows]
EmptyTable == Table(<<>>, <<>>)
Height(df) == Len(df.rows)

\* config.yaml: layer1.full_columns_new (ordered)
TargetSchema == <<"A", "B", "C">>

Min(a, b) == IF a <= b THEN a ELSE b

\* df.slice(start, length): rows start .. start+length-1 (0-based), clipped
Slice(df, start, length) ==
    Table(df.columns, SubSeq(df.rows, start + 1, Min(start + length, Height(df))))

(***************************************************************************)
(* Files of the output directory.  A file is keyed by its part index; its  *)
(* name is what PartFilename formats.  A file whose write failed half way  *)
(* is unreadable.                                                          *)
(***************************************************************************)
File(t)  == [readable |-> TRUE, table |-> t]
Corrupt  == [readable |-> FALSE, table |-> EmptyTable]

NoFiles  == [i \in {} |-> Corrupt]
NoDir    == [exists |-> FALSE, files |-> NoFiles]

Put(files, k, v) ==
    [i \in (DOMAIN files) \union {k} |-> IF i = k THEN v ELSE files[i]]

\* Characters are their ASCII codes; only '.' and the digits decide an order.
Dot == 46
Zero == 48
PadWidth == 5

RECURSIVE Digits(_)
Digits(n) == IF n < 10 THEN <<Zero + n>> ELSE Digits(n \div 10) \o <<Zero + (n % 10)>>

RECURSIVE ZeroPad(_, _)
ZeroPad(ds, width) == IF Len(ds) >= width THEN ds ELSE ZeroPad(<<Zero>> \o ds, width)

\* f"part-{part_idx:05d}.parquet": the part after "part-" up to the '.'
\* (the prefix "part-" and the extension "parquet" are common to all names)
PartFilename(part_idx) == ZeroPad(Digits(part_idx), PadWidth) \o <<Dot>>

\* str.__lt__ on two names
LexLess(a, b) ==
    \/ \E i \in 1..Min(Len(a), Len(b)) :
          /\ a[i] < b[i]
          /\ \A j \in 1..(i - 1) : a[j] = b[j]
    \/ /\ Len(a) < Len(b)
       /\ \A j \in 1..Len(a) : a[j] = b[j]

\* sorted(...) of the directory's part files, as the sequence of their indices
RECURSIVE SortedParts(_)
SortedParts(S) ==
    IF S = {} THEN <<>>
    ELSE LET first == CHOOSE x \in S :
                         \A y \in S \ {x} : LexLess(PartFilename(x), PartFilename(y))
         IN <<first>> \o SortedParts(S \ {first})

(***************************************************************************)
(* layers/layer1/writer.py                                                 *)
(***************************************************************************)
\* out_dir.mkdir(parents=True, exist_ok=True)
BuildOutputDirForDate(dir) == [dir EXCEPT !.exists = TRUE]

NumPartsFloor(total_rows, chunk_size) == total_rows \div chunk_size

\* math.ceil(total_rows / chunk_size)
NumParts(total_rows, chunk_size) == (total_rows + chunk_size - 1) \div chunk_size

\* A fault of the parquet library: write_parquet raises at part `at`
\* (NoFault: never), leaving a torn file behind or nothing.
NoFault == [at |-> -1, torn |-> FALSE]
Faults(n) == {NoFault} \union [at : 0..(n - 1), torn : BOOLEAN]

\* the for loop of write_parquet_parts from part_idx on
RECURSIVE WriteLoop(_, _, _, _, _, _, _)
WriteLoop(files, df, chunk_size, num_parts, part_idx, fault, written) ==
    IF part_idx >= num_parts
    THEN [files |-> files, status |-> "ok", written |-> written]
    ELSE LET start  == part_idx * chunk_size
             length == Min(chunk_size, Height(df) - start)
         IN  IF length <= 0
             THEN [files |-> files, status |-> "ok", written |-> written]
             ELSE IF fault.at = part_idx
             THEN [files   |-> IF fault.torn THEN Put(files, part_idx, Corrupt)
                                ELSE files,
                   status  |-> "error",
                   written |-> written]
             ELSE WriteLoop(Put(files, part_idx, File(Slice(df, start, length))),
                            df, chunk_size, num_parts, part_idx + 1, fault,
                            Append(written, [idx |-> part_idx, height |-> length]))

\* write_parquet_parts that undoes its writes when a part fails
WriteParquetPartsRollback(dir, df, chunk_size, fault) ==
    LET out_dir == BuildOutputDirForDate(dir)
        total_rows == Height(df)
    IN  IF total_rows = 0
        THEN [dir |-> out_dir, status |-> "ok", written |-> <<>>]
        ELSE LET r == WriteLoop(out_dir.files, df, chunk_size,
                                NumParts(total_rows, chunk_size), 0, fault, <<>>)
             IN  [dir     |-> IF r.status = "ok"
                              THEN [out_dir EXCEPT !.files = r.files]
                              ELSE out_dir,
                  status  |-> r.status,
                  written |-> r.written]

\* write_parquet_parts(df, processing_date) on directory `dir` with the
\* configured chunk_size: the directory afterwards, the outcome, the parts written
WriteParquetParts(dir, df, chunk_size, fault) ==
    LET out_dir == BuildOutputDirForDate(dir)
        total_rows == Height(df)
    IN  IF total_rows = 0
        THEN [dir |-> out_dir, status |-> "ok", written |-> <<>>]
        ELSE LET r == WriteLoop(out_dir.files, df, chunk_size,
                                NumParts(total_rows, chunk_size), 0, fault, <<>>)
             IN  [dir     |-> [out_dir EXCEPT !.files = r.files],
                  status  |-> r.status,
                  written |-> r.written]

(***************************************************************************)
(* layers/layer1/validator.py                                              *)
(***************************************************************************)
\* EXPECTED_COLUMNS = config layer1.full_columns_new
EXPECTED_COLUMNS == TargetSchema

Range(f) == {f[i] : i \in DOMAIN f}

\* [c for c in xs if c not in ys]
RECURSIVE NotIn(_, _)
NotIn(xs, ys) ==
    IF xs = <<>> THEN <<>>
    ELSE (IF Head(xs) \in Range(ys) THEN <<>> ELSE <<Head(xs)>>) \o NotIn(Tail(xs), ys)

NoPart == -1

\* _find_first_parquet_part taking the last of the sorted names
FindLastParquetPart(dir) ==
    IF ~dir.exists THEN NoPart
    ELSE LET parts == SortedParts(DOMAIN dir.files)
         IN  IF parts = <<>> THEN NoPart ELSE parts[Len(parts)]

\* _find_first_parquet_part: the index of the first part file by sorted name
FindFirstParquetPart(dir) ==
    IF ~dir.exists THEN NoPart
    ELSE LET parts == SortedParts(DOMAIN dir.files)
         IN  IF parts = <<>> THEN NoPart ELSE parts[1]

ValidStrict(missing, extra) == missing = <<>> /\ extra = <<>>

\* valid = (len(missing) == 0)
Valid(missing, extra) == Len(missing) = 0

NoValidate == [status |-> "none", first |-> NoPart, missing |-> <<>>,
               extra |-> <<>>, order_mismatch |-> FALSE]

\* validate_output_schema(output_dir): "true" / "false" returned,
\* "no_output" / "read_error" raised
ValidateOutputSchema(dir) ==
    LET first_part == FindFirstParquetPart(dir)
    IN  IF first_part = NoPart
        THEN [NoValidate EXCEPT !.status = "no_output"]
        ELSE IF ~dir.files[first_part].readable
        THEN [NoValidate EXCEPT !.status = "read_error", !.first = first_part]
        ELSE LET produced_columns == dir.files[first_part].table.columns
                 expected_columns == EXPECTED_COLUMNS
                 missing == NotIn(expected_columns, produced_columns)
                 extra   == NotIn(produced_columns, expected_columns)
                 order_mismatch == /\ missing = <<>>
                                   /\ extra = <<>>
                                   /\ produced_columns # expected_columns
             IN  [status  |-> IF Valid(missing, extra) THEN "true" ELSE "false",
                  first   |-> first_part,
                  missing |-> missing,
                  extra   |-> extra,
                  order_mismatch |-> order_mismatch]

(***************************************************************************)
(* layers/layer1/reader.py                                                 *)
(*                                                                         *)
(* The file at raw_path either does not exist, or holds CSV text that is   *)
(* gzip-compressed or plain (a plain file under the .csv.gz name).  Its    *)
(* text is empty (no bytes), or a header line followed by 0 or more rows.  *)
(***************************************************************************)
NoText == [empty |-> TRUE, table |-> EmptyTable]
Text(t) == [empty |-> FALSE, table |-> t]
SourceFile(gz, text) == [exists |-> TRUE, gzip |-> gz, text |-> text]
Missing == [exists |-> FALSE, gzip |-> FALSE, text |-> NoText]

SAFE_BATCH_SIZE == 200000

\* the frames reader.next_batches(1) hands out one after the other
RECURSIVE Batches(_, _, _)
Batches(t, batch_size, start) ==
    IF start >= Height(t) THEN <<>>
    ELSE <<Slice(t, start, batch_size)>> \o Batches(t, batch_size, start + batch_size)

\* pl.concat(batches, how="vertical") of a non-empty list
RECURSIVE Concat(_)
Concat(batches) ==
    IF Len(batches) = 1 THEN batches[1]
    ELSE Table(batches[1].columns, batches[1].rows \o Concat(Tail(batches)).rows)

Failed(reason) == [ok |-> FALSE, table |-> EmptyTable, reason |-> reason]
Done(t) == [ok |-> TRUE, table |-> t, reason |-> "none"]

ReadCsvInBatchesUnchecked(text, batch_size, fault) ==
    IF text.empty THEN Failed("NoDataError")
    ELSE IF fault THEN Failed("ParseError")
    ELSE Done(text.table)

\* _read_csv_in_batches on CSV text; `fault`: the parser raises
ReadCsvInBatches(text, batch_size, fault) ==
    IF text.empty THEN Failed("NoDataError")          \* pl.read_csv_batched raises
    ELSE IF fault THEN Failed("ParseError")
    ELSE LET batches == Batches(text.table, batch_size, 0)
         IN  IF batches = <<>>
             THEN Failed("No data batches returned from CSV reader")
             ELSE Done(Concat(batches))

\* gzip.open(raw_path).read(): an empty file reads as end of stream
Decompress(f) ==
    IF f.text.empty \/ f.gzip THEN [ok |-> TRUE, text |-> f.text]
    ELSE [ok |-> FALSE, text |-> NoText]

\* the finally block of attempt 1: os.remove(temp_csv), its failure logged
Cleanup(created, ok, rmfail) ==
    IF ~created THEN "none"
    ELSE IF rmfail THEN "remove_failed" ELSE "removed"

TempExists(tmp) == tmp \in {"present", "remove_failed"}

\* What the environment may do to one attempt: `fault` is the step that
\* raises for a reason outside the file's contents, `rmfail` makes os.remove
\* raise, `native` tells whether the batched parser reads compressed input.
Envs == [fault : {"none", "mktemp", "io", "parse"}, rmfail : BOOLEAN, native : BOOLEAN]

\* Attempt 1: decompress to a temp file, then batched parse of the temp file
DecompressToTemp(f, env) ==
    IF env.fault = "mktemp"
    THEN [res |-> Failed("TempFileError"), temp |-> Cleanup(FALSE, FALSE, env.rmfail)]
    ELSE LET gz == Decompress(f)
             res == IF ~gz.ok THEN Failed("BadGzipFile")
                    ELSE IF env.fault = "io" THEN Failed("OSError")
                    ELSE ReadCsvInBatches(gz.text, SAFE_BATCH_SIZE, env.fault = "parse")
         IN  [res |-> res, temp |-> Cleanup(TRUE, res.ok, env.rmfail)]

\* Attempt 2: batched parse of raw_path itself
DirectBatched(f, env) ==
    IF f.gzip /\ ~f.text.empty /\ ~env.native THEN Failed("ComputeError")
    ELSE ReadCsvInBatches(f.text, SAFE_BATCH_SIZE, env.fault = "parse")

\* Attempt 3: pl.read_csv(raw_path): a header without rows is a zero-row frame
StandardRead(f, env) ==
    IF f.text.empty THEN Failed("NoDataError")
    ELSE IF env.fault = "parse" THEN Failed("ParseError")
    ELSE Done(f.text.table)

NoResult == [status |-> "none", table |-> EmptyTable, by |-> 0,
             error |-> "none", cause |-> "none"]

AfterAttemptFallThrough(k, ok) ==
    IF k = 3 THEN (IF ok THEN "returned" ELSE "raised")
    ELSE IF k = 1 THEN "s2" ELSE "s3"

\* where the call continues after attempt k: return df, or the next attempt,
\* or raise RuntimeError(...) from fatal
AfterAttempt(k, ok) ==
    IF ok THEN "returned"
    ELSE IF k = 1 THEN "s2"
    ELSE IF k = 2 THEN "s3"
    ELSE "raised"

\* the call's result once attempt k ended with res
ResultAfter(k, res, pc) ==
    IF pc = "returned"
    THEN [status |-> "ok", table |-> res.table, by |-> k,
          error |-> "none", cause |-> "none"]
    ELSE IF pc = "raised"
    THEN [status |-> "error", table |-> EmptyTable, by |-> 0,
          error |-> "Unable to read CSV.GZ file", cause |-> res.reason]
    ELSE NoResult

\* lines 81-85: logging the compressed size stats raw_path
ReadBegin(f) ==
    /\ rsrc' = f
    /\ temp' = "none"
    /\ tried' = <<>>
    /\ IF f.exists
       THEN rpc' = "s1" /\ rres' = NoResult
       ELSE /\ rpc' = "raised"
            /\ rres' = [NoResult EXCEPT !.status = "error",
                                         !.error = "FileNotFoundError"]

Attempted(k, res) == [strategy |-> k, ok |-> res.ok, table |-> res.table,
                      reason |-> res.reason]

TryDecompressToTemp ==
    /\ rpc = "s1"
    /\ \E env \in Envs :
         LET o == DecompressToTemp(rsrc, env)
             pc == AfterAttempt(1, o.res.ok)
         IN  /\ temp' = o.temp
             /\ tried' = Append(tried, Attempted(1, o.res))
             /\ rpc' = pc
             /\ rres' = ResultAfter(1, o.res, pc)
    /\ UNCHANGED rsrc

TryDirectBatched ==
    /\ rpc = "s2"
    /\ \E env \in Envs :
         LET res == DirectBatched(rsrc, env)
             pc == AfterAttempt(2, res.ok)
         IN  /\ tried' = Append(tried, Attempted(2, res))
             /\ rpc' = pc
             /\ rres' = ResultAfter(2, res, pc)
    /\ UNCHANGED <<rsrc, temp>>

TryStandardRead ==
    /\ rpc = "s3"
    /\ \E env \in Envs :
         LET res == StandardRead(rsrc, env)
             pc == AfterAttempt(3, res.ok)
         IN  /\ tried' = Append(tried, Attempted(3, res))
             /\ rpc' = pc
             /\ rres' = ResultAfter(3, res, pc)
    /\ UNCHANGED <<rsrc, temp>>

ReaderIdle ==
    /\ rsrc = Missing
    /\ rpc = "idle"
    /\ temp = "none"
    /\ tried = <<>>
    /\ rres = NoResult

\* the call's frame is dropped
ReaderReset ==
    /\ rsrc' = Missing
    /\ rpc' = "idle"
    /\ temp' = "none"
    /\ tried' = <<>>
    /\ rres' = NoResult

(***************************************************************************)
(* layers/layer1/normalizer.py                                             *)
(***************************************************************************)
\* a cast through the textual representation of the value, which quotes a text
CastUtf8Repr(cell) ==
    IF cell.t = "int" THEN Str(ToString(cell.i))
    ELSE IF cell.t = "str" THEN Str(ToString(cell.s))
    ELSE cell

\* pl.col(col).cast(pl.Utf8): a null stays null
CastUtf8(cell) ==
    IF cell.t = "int" THEN Str(ToString(cell.i)) ELSE cell

IndexOf(cols, c) == CHOOSE j \in 1..Len(cols) : cols[j] = c

\* the loop df.with_columns(pl.col(col).cast(pl.Utf8)) over original_cols
CastAll(t) ==
    Table(t.columns,
          [r \in 1..Height(t) |->
              [j \in 1..Len(t.columns) |-> CastUtf8(t.rows[r][j])]])

\* pl.concat([df, missing_df], how="horizontal"), missing_df all ""
AddColumns(t, missing) ==
    Table(t.columns \o missing,
          [r \in 1..Height(t) |->
              t.rows[r] \o [j \in 1..Len(missing) |-> Str("")]])

\* df.select(cols)
Select(t, cols) ==
    Table(cols,
          [r \in 1..Height(t) |->
              [j \in 1..Len(cols) |-> t.rows[r][IndexOf(t.columns, cols[j])]]])

\* [col for col in df.columns if col in schema_cols]
RECURSIVE Keep(_, _)
Keep(xs, ys) ==
    IF xs = <<>> THEN <<>>
    ELSE (IF Head(xs) \in Range(ys) THEN <<Head(xs)>> ELSE <<>>) \o Keep(Tail(xs), ys)

\* normalize_dataframe_to_schema without its step 4, df.select(schema_cols)
NormalizeWithoutReorder(t, schema_cols) ==
    LET cast    == CastAll(t)
        missing == NotIn(schema_cols, cast.columns)
        added   == IF missing # <<>> THEN AddColumns(cast, missing) ELSE cast
        extra   == NotIn(added.columns, schema_cols)
    IN  IF extra # <<>>
        THEN Select(added, Keep(added.columns, schema_cols))
        ELSE added

\* normalize_dataframe_to_schema(df, schema_cols)
NormalizeDataframeToSchema(t, schema_cols) ==
    LET cast    == CastAll(t)                                   \* step 1
        missing == NotIn(schema_cols, cast.columns)
        added   == IF missing # <<>> THEN AddColumns(cast, missing) ELSE cast
        extra   == NotIn(added.columns, schema_cols)
        dropped == IF extra # <<>>
                   THEN Select(added, Keep(added.columns, schema_cols))
                   ELSE added
    IN  Select(dropped, schema_cols)                            \* step 4

\* no call of normalize_dataframe_to_schema yet
NoNormalize ==
    [calls |-> 0, df |-> EmptyTable, schema_cols |-> <<>>,
     first |-> EmptyTable, second |-> EmptyTable]

(***************************************************************************)
(* layers/layer1/flow.py                                                   *)
(***************************************************************************)
Tasks == {"locate", "read", "normalize", "write", "validate"}

RetriesEverywhere(task) == 3

\* @task(retries=3, retry_delay_seconds=5) on task_read and task_write
Retries(task) == IF task \in {"read", "write"} THEN 3 ELSE 0
RetryDelaySeconds(task) == IF task \in {"read", "write"} THEN 5 ELSE 0

\* config.yaml: layer1.chunk_size
ChunkSize == 2

Bump(f, task) == [f EXCEPT ![task] = @ + 1]

\* an attempt of `task` returned: the flow goes on with `next`
TaskReturns(task, next) ==
    /\ fpc' = next
    /\ UNCHANGED <<failures, slept, failedAt>>

\* an attempt of `task` raised and the exception is swallowed: the flow goes
\* on with the next task
TaskRaisesSwallowed(task) ==
    /\ failures' = Bump(failures, task)
    /\ fpc' = CASE task = "locate"    -> "read"
                [] task = "read"      -> "normalize"
                [] task = "normalize" -> "write"
                [] task = "write"     -> "validate"
                [] OTHER              -> "completed"
    /\ UNCHANGED <<slept, failedAt>>

\* an attempt of `task` raised: Prefect runs it again after the delay while
\* retries are left, else the exception ends the flow run
TaskRaises(task) ==
    /\ failures' = Bump(failures, task)
    /\ IF failures[task] < Retries(task)
       THEN /\ fpc' = task
            /\ slept' = slept + RetryDelaySeconds(task)
            /\ UNCHANGED failedAt
       ELSE /\ fpc' = "failed"
            /\ failedAt' = task
            /\ UNCHANGED slept

NoAttempts == [t \in Tasks |-> 0]

FlowIdle ==
    /\ fpc = "idle"
    /\ inputFile = Missing
    /\ attempts = NoAttempts
    /\ failures = NoAttempts
    /\ slept = 0
    /\ failedAt = "none"
    /\ flow_df = EmptyTable
    /\ normalized_df = EmptyTable

(***************************************************************************)
(* Source files: the spec's example layout [B, D], B numeric, D sparse.    *)
(***************************************************************************)
RawRow(seed, r) == <<Num(100 * seed + r), IF r % 2 = 0 THEN Null ELSE Str("d")>>
RawTable(seed, n) == Table(<<"B", "D">>, [r \in 1..n |-> RawRow(seed, r)])
Texts == {NoText} \union {Text(RawTable(seed, n)) : seed \in Seeds, n \in 0..MaxRows}
Sources == {Missing} \union {SourceFile(gz, text) : gz \in BOOLEAN, text \in Texts}

(***************************************************************************)
(* Inputs of the writer: normalized tables whose rows are told apart.      *)
(***************************************************************************)
NormRow(seed, r) == [j \in 1..Len(TargetSchema) |-> Str(ToString(100 * seed + r))]
NormTable(seed, n) == Table(TargetSchema, [r \in 1..n |-> NormRow(seed, r)])
NormalizedInputs == {NormTable(seed, n) : seed \in Seeds, n \in 0..MaxRows}

NoWrite == [status |-> "none", df |-> EmptyTable, chunk |-> 0, written |-> <<>>,
            existed |-> FALSE]
WInit ==
    /\ outDir = NoDir
    /\ wr = NoWrite
    /\ vr = NoValidate
    /\ ReaderIdle
    /\ FlowIdle
    /\ nr = NoNormalize

\* one call of write_parquet_parts
WriteCall ==
    \E df \in NormalizedInputs, c \in 1..MaxChunk :
      \E fault \in Faults(NumParts(Height(df), c)) :
        LET r == WriteParquetParts(outDir, df, c, fault)
        IN  /\ outDir' = r.dir
            /\ wr' = [status |-> r.status, df |-> df, chunk |-> c,
                      written |-> r.written, existed |-> outDir.exists]
            /\ UNCHANGED <<vr, readerVars, flowVars, nr>>

WNext == WriteCall

SpecWriter == WInit /\ [][WNext]_vars

(***************************************************************************)
(* SpecValidator: validate_output_schema applied to a directory whose      *)
(* first part has any column list over Columns (or is unreadable), with or *)
(* without a second, conformant part, or whose first part is conformant    *)
(* and whose second part is any of these.                                  *)
(***************************************************************************)
Columns == {"A", "B", "C", "D"}

\* the lists of distinct columns
ColumnLists ==
    {cs \in UNION {[1..n -> Columns] : n \in 1..Cardinality(Columns)} :
        \A i, j \in DOMAIN cs : i # j => cs[i] # cs[j]}

OneRow(cols) == Table(cols, << [j \in 1..Len(cols) |-> Str("x")] >>)

FirstParts == {File(OneRow(cs)) : cs \in ColumnLists} \union {Corrupt}

DirInputs ==
    {NoDir, [exists |-> TRUE, files |-> NoFiles]}
    \union {[exists |-> TRUE, files |-> Put(NoFiles, 0, f)] : f \in FirstParts}
    \union {[exists |-> TRUE,
             files |-> Put(Put(NoFiles, 0, f), 1, File(OneRow(TargetSchema)))] :
                f \in FirstParts}
    \union {[exists |-> TRUE,
             files |-> Put(Put(NoFiles, 0, File(OneRow(TargetSchema))), 1, f)] :
                f \in FirstParts}
    \union {[exists |-> TRUE,
             files |-> Put(Put(NoFiles, 1, f), 2, File(OneRow(TargetSchema)))] :
                f \in FirstParts}

VInit ==
    /\ outDir \in DirInputs
    /\ wr = NoWrite
    /\ vr = NoValidate
    /\ ReaderIdle
    /\ FlowIdle
    /\ nr = NoNormalize

\* one call of validate_output_schema
ValidateCall ==
    /\ vr' = ValidateOutputSchema(outDir)
    /\ UNCHANGED <<outDir, wr, readerVars, flowVars, nr>>

VNext == ValidateCall

SpecValidator == VInit /\ [][VNext]_vars

(***************************************************************************)
(* SpecNormalize: normalize_dataframe_to_schema applied to a raw table     *)
(* with any list of columns and any target schema, and then applied once   *)
(* more to its own result.                                                 *)
(***************************************************************************)
MaxCols      == 3   \* raw tables have 0..MaxCols columns
MaxSchemaLen == 3   \* target schemas have 1..MaxSchemaLen columns

\* the lists of at most n distinct columns
ListsUpTo(n) ==
    {cs \in UNION {[1..k -> Columns] : k \in 0..n} :
        \A i, j \in DOMAIN cs : i # j => cs[i] # cs[j]}

\* what a CSV field parses to: empty (null), an integer, a text, an empty text
CellPool(r, j) == <<Null, Num(10 * r + j), Str("x"), Str("")>>

CellSeeds == 0..3

RawCell(seed, r, j) == CellPool(r, j)[((seed + r + j) % Len(CellPool(r, j))) + 1]

GenTable(cols, n, seed) ==
    Table(cols, [r \in 1..n |-> [j \in 1..Len(cols) |-> RawCell(seed, r, j)]])

\* a DataFrame without columns has no rows
RawInputs ==
    {GenTable(cs, n, sd) : cs \in ListsUpTo(MaxCols) \ {<<>>},
                           n \in 0..MaxRows, sd \in CellSeeds}
    \union {EmptyTable}

Schemas == (ListsUpTo(MaxSchemaLen) \ {<<>>}) \union {TargetSchema}

NInit ==
    /\ nr \in {[calls |-> 0, df |-> t, schema_cols |-> s,
                first |-> EmptyTable, second |-> EmptyTable] :
                    t \in RawInputs, s \in Schemas}
    /\ outDir = NoDir
    /\ wr = NoWrite
    /\ vr = NoValidate
    /\ ReaderIdle
    /\ FlowIdle

\* normalize_dataframe_to_schema(df, schema_cols)
NormalizeCall ==
    /\ nr.calls = 0
    /\ nr' = [nr EXCEPT !.calls = 1,
                        !.first = NormalizeDataframeToSchema(nr.df, nr.schema_cols)]
    /\ UNCHANGED <<writerVars, readerVars, flowVars>>

\* normalize_dataframe_to_schema applied to the table the first call returned
NormalizeAgain ==
    /\ nr.calls = 1
    /\ nr' = [nr EXCEPT !.calls = 2,
                        !.second = NormalizeDataframeToSchema(nr.first, nr.schema_cols)]
    /\ UNCHANGED <<writerVars, readerVars, flowVars>>

NNext == NormalizeCall \/ NormalizeAgain

SpecNormalize == NInit /\ [][NNext]_vars

(***************************************************************************)
(* SpecReader: calls of read_raw_with_polars on any source file.           *)
(***************************************************************************)
RInit ==
    /\ outDir = NoDir
    /\ wr = NoWrite
    /\ vr = NoValidate
    /\ ReaderIdle
    /\ FlowIdle
    /\ nr = NoNormalize

\* a caller calls read_raw_with_polars(raw_path)
ReadCall ==
    /\ rpc \in {"idle", "returned", "raised"}
    /\ fpc = "idle"
    /\ \E f \in Sources : ReadBegin(f)
    /\ UNCHANGED <<writerVars, flowVars, nr>>

ReaderStep ==
    /\ \/ TryDecompressToTemp
       \/ TryDirectBatched
       \/ TryStandardRead
    /\ UNCHANGED <<writerVars, flowVars, nr>>

RNext == ReadCall \/ ReaderStep

SpecReader == RInit /\ [][RNext]_vars

(***************************************************************************)
(* Spec: runs of layer1_flow(processing_date), one after the other, for    *)
(* one processing date.                                                    *)
(***************************************************************************)
FlowSources ==
    {Missing, SourceFile(TRUE, NoText), SourceFile(FALSE, Text(RawTable(1, MaxRows)))}
    \union {SourceFile(TRUE, Text(RawTable(seed, n))) :
                seed \in Seeds, n \in {0, 1, MaxRows}}

Init ==
    /\ outDir = NoDir
    /\ wr = NoWrite
    /\ vr = NoValidate
    /\ ReaderIdle
    /\ FlowIdle
    /\ nr = NoNormalize

\* pipeline.py runs the flow for the date; the input directory holds `f`
FlowStart ==
    /\ fpc \in {"idle", "completed", "failed"}
    /\ \E f \in FlowSources : inputFile' = f
    /\ fpc' = "locate"
    /\ attempts' = NoAttempts
    /\ failures' = NoAttempts
    /\ slept' = 0
    /\ failedAt' = "none"
    /\ flow_df' = EmptyTable
    /\ normalized_df' = EmptyTable
    /\ wr' = NoWrite /\ vr' = NoValidate               \* a new process:
    /\ ReaderReset                                     \* only the disk persists
    /\ UNCHANGED <<outDir, nr>>

\* task_locate_file: locate_raw_file raises FileNotFoundError
TaskLocateFile ==
    /\ fpc = "locate"
    /\ attempts' = Bump(attempts, "locate")
    /\ IF inputFile.exists
       THEN TaskReturns("locate", "read")
       ELSE TaskRaises("locate")
    /\ UNCHANGED <<nr, inputFile, flow_df, normalized_df, writerVars, readerVars>>

\* task_read, up to the call of read_raw_with_polars(raw_path)
TaskReadStart ==
    /\ fpc = "read"
    /\ attempts' = Bump(attempts, "read")
    /\ fpc' = "reading"
    /\ ReadBegin(inputFile)
    /\ UNCHANGED <<nr, inputFile, failures, slept, failedAt, flow_df, normalized_df, writerVars>>

\* read_raw_with_polars inside task_read
TaskReadStep ==
    /\ fpc = "reading"
    /\ ReaderStep

\* task_read, from the return of read_raw_with_polars (whose frame is gone)
TaskReadEnd ==
    /\ fpc = "reading"
    /\ \/ /\ rpc = "returned"
          /\ flow_df' = rres.table
          /\ TaskReturns("read", "normalize")
       \/ /\ rpc = "raised"
          /\ TaskRaises("read")
          /\ UNCHANGED flow_df
    /\ ReaderReset
    /\ UNCHANGED <<nr, inputFile, attempts, normalized_df, writerVars>>

\* task_normalize; `fault`: polars raises
TaskNormalize ==
    /\ fpc = "normalize"
    /\ attempts' = Bump(attempts, "normalize")
    /\ \E fault \in BOOLEAN :
         IF fault
         THEN TaskRaises("normalize") /\ UNCHANGED normalized_df
         ELSE /\ normalized_df' = NormalizeDataframeToSchema(flow_df, TargetSchema)
              /\ TaskReturns("normalize", "write")
    /\ UNCHANGED <<nr, inputFile, flow_df, writerVars, readerVars>>

\* task_write
TaskWrite ==
    /\ fpc = "write"
    /\ attempts' = Bump(attempts, "write")
    /\ \E fault \in Faults(NumParts(Height(normalized_df), ChunkSize)) :
         LET r == WriteParquetParts(outDir, normalized_df, ChunkSize, fault)
         IN  /\ outDir' = r.dir
             /\ wr' = [status |-> r.status, df |-> normalized_df, chunk |-> ChunkSize,
                       written |-> r.written, existed |-> outDir.exists]
             /\ IF r.status = "ok"
                THEN TaskReturns("write", "validate")
                ELSE TaskRaises("write")
    /\ UNCHANGED <<nr, inputFile, flow_df, normalized_df, vr, readerVars>>

AfterValidateIgnored(status) == "completed"

\* task_validate_output: return True, or raise
AfterValidate(status) ==
    IF status = "true" THEN "completed" ELSE "failed"

\* task_validate_output, and the flow's return after it
TaskValidateOutput ==
    /\ fpc = "validate"
    /\ attempts' = Bump(attempts, "validate")
    /\ vr' = ValidateOutputSchema(outDir)
    /\ IF AfterValidate(vr'.status) = "completed"
       THEN TaskReturns("validate", "completed")
       ELSE TaskRaises("validate")
    /\ UNCHANGED <<nr, inputFile, flow_df, normalized_df, outDir, wr, readerVars>>

Next ==
    \/ FlowStart
    \/ TaskLocateFile
    \/ TaskReadStart
    \/ TaskReadStep
    \/ TaskReadEnd
    \/ TaskNormalize
    \/ TaskWrite
    \/ TaskValidateOutput

Spec == Init /\ [][Next]_vars

(***************************************************************************)
(* Claims about the writer (checked under SpecWriter).                     *)
(***************************************************************************)
\* what a reader of the directory gets: the part files in filename order
PartsInNameOrder(dir) ==
    LET order == SortedParts(DOMAIN dir.files)
    IN  [k \in 1..Len(order) |-> dir.files[order[k]]]

RECURSIVE ConcatRows(_)
ConcatRows(parts) ==
    IF parts = <<>> THEN <<>>
    ELSE Head(parts).table.rows \o ConcatRows(Tail(parts))

RECURSIVE SumHeights(_)
SumHeights(parts) ==
    IF parts = <<>> THEN 0
    ELSE Height(Head(parts).table) + SumHeights(Tail(parts))

\* the least k with k * c >= n
CeilOf(n, c) == CHOOSE k \in 0..n : k * c >= n /\ \A j \in 0..(k - 1) : j * c < n

\* C1: after a successful write_parquet_parts(N), the part files of the
\* per-date directory, concatenated in lexicographic filename order, are N:
\* same columns, same rows in the same order, row counts summing to N's.
C1_RoundTrip ==
    wr.status = "ok" =>
        LET parts == PartsInNameOrder(outDir)
        IN  /\ \A k \in 1..Len(parts) :
                  parts[k].readable /\ parts[k].table.columns = wr.df.columns
            /\ ConcatRows(parts) = wr.df.rows
            /\ SumHeights(parts) = Height(wr.df)

\* C2: a successful write of total_rows > 0 rows writes exactly
\* ceil(total_rows / chunk_size) parts, indexed 0..k-1 in order; each but the
\* last has chunk_size rows and the last has 1..chunk_size rows.
C2_PartitionSizes ==
    (wr.status = "ok" /\ Height(wr.df) > 0) =>
        LET k == CeilOf(Height(wr.df), wr.chunk)
        IN  /\ Len(wr.written) = k
            /\ \A i \in 1..Len(wr.written) :
                  /\ wr.written[i].idx = i - 1
                  /\ i < k => wr.written[i].height = wr.chunk
                  /\ i = k => /\ wr.written[i].height >= 1
                              /\ wr.written[i].height <= wr.chunk

\* a write whose last part is smaller than the others
C2_Witness ==
    /\ wr.status = "ok"
    /\ Height(wr.df) = 3
    /\ wr.chunk = 2
    /\ Len(wr.written) = 2
    /\ wr.written[2].height = 1

\* the parts of table df under chunk size c, and nothing else
ExpectedFiles(df, c) ==
    [i \in 0..(CeilOf(Height(df), c) - 1) |-> File(Slice(df, i * c, c))]

\* C3: after the latest successful write for the date, the directory holds
\* exactly the parts of the latest table and no file of an earlier run.
C3_RerunOverwrites ==
    wr.status = "ok" => outDir.files = ExpectedFiles(wr.df, wr.chunk)

\* (sanity) on a directory that did not exist before the call, both hold
FreshDirRoundTrip ==
    (wr.status = "ok" /\ ~wr.existed) =>
        /\ outDir.files = ExpectedFiles(wr.df, wr.chunk)
        /\ ConcatRows(PartsInNameOrder(outDir)) = wr.df.rows

(***************************************************************************)
(* Claims about the validator (checked under SpecValidator).               *)
(***************************************************************************)
\* the columns of the first part file by name
FirstPartColumns(dir) ==
    dir.files[SortedParts(DOMAIN dir.files)[1]].table.columns

\* C4: when the first part exists and is readable, validation returns False
\* if and only if some TargetSchema column is absent from that part's
\* columns; extra columns and a different order never make it fail.
C4_FailsIffMissing ==
    vr.status \in {"true", "false"} =>
        (vr.status = "false"
            <=> \E c \in Range(TargetSchema) :
                    c \notin Range(FirstPartColumns(outDir)))

\* validation passed although the first part has an extra column and
\* its columns are in another order than the schema's
C4_Witness ==
    /\ vr.status = "true"
    /\ vr.extra # <<>>
    /\ FirstPartColumns(outDir) = <<"D", "C", "B", "A">>

(***************************************************************************)
(* Claims about the reader (checked under SpecReader).                     *)
(***************************************************************************)
\* C6: within one call the strategies are attempted in the fixed order
\* 1, 2, 3; strategy k+1 only after strategy k failed; the table returned
\* is that of the first strategy that succeeded, and none is attempted
\* after it.
C6_CascadeOrder ==
    /\ \A i \in 1..Len(tried) : tried[i].strategy = i
    /\ \A i \in 1..(Len(tried) - 1) : ~tried[i].ok
    /\ (Len(tried) >= 1 /\ tried[Len(tried)].ok) => rpc = "returned"
    /\ rpc = "returned" =>
          /\ Len(tried) >= 1
          /\ tried[Len(tried)].ok
          /\ rres.status = "ok"
          /\ rres.by = Len(tried)
          /\ rres.table = tried[Len(tried)].table

\* the direct batched parse won after the temp-file strategy failed
C6_Witness ==
    /\ rpc = "returned"
    /\ Len(tried) = 2
    /\ ~tried[1].ok
    /\ rres.by = 2
    /\ Height(rres.table) > 0

AllFailed == Len(tried) = 3 /\ \A i \in 1..3 : ~tried[i].ok

\* C7: the call fails if and only if every strategy failed, and then with
\* the aggregate error whose cause is the last strategy's failure; no other
\* failure reaches the caller.
C7_FailsIffExhausted ==
    /\ rpc = "raised" =>
          /\ AllFailed
          /\ rres.error = "Unable to read CSV.GZ file"
          /\ rres.cause = tried[3].reason
    /\ AllFailed => rpc = "raised"

\* (sanity) what holds of the code: once raw_path was stat-ed, C7 holds
C7_AfterStat ==
    (rsrc.exists /\ rpc = "raised") =>
        /\ AllFailed
        /\ rres.error = "Unable to read CSV.GZ file"
        /\ rres.cause = tried[3].reason

AfterAttempt1 == rpc \in {"s2", "s3", "returned", "raised"}

\* C8: whenever the call returns or raises, and whenever the
\* next strategy starts, no temp file of this call exists.
C8_TempAlwaysDeleted ==
    AfterAttempt1 => ~TempExists(temp)

NoDataRows(f) == f.exists /\ (f.text.empty \/ Height(f.text.table) = 0)

\* C9 as stated: a source without data rows (empty, or header only) fails
\* every strategy and the call raises; no zero-row table is ever returned.
C9_NoRowsNeverReturned ==
    /\ NoDataRows(rsrc) => rpc # "returned"
    /\ rpc = "returned" => Height(rres.table) > 0

\* C9 as amended: an entirely empty source fails every strategy and the
\* call raises; on a source without data rows both batched strategies fail;
\* a zero-row table is returned only by the full buffered parse (attempt 3).
C9_EmptyFailsBatchedRejectNoRows ==
    /\ (rsrc.exists /\ rsrc.text.empty) =>
          /\ rpc # "returned"
          /\ \A i \in 1..Len(tried) : ~tried[i].ok
          /\ Len(tried) = 3 => rpc = "raised"
    /\ NoDataRows(rsrc) =>
          \A i \in 1..Len(tried) : tried[i].strategy \in {1, 2} => ~tried[i].ok
    /\ (rpc = "returned" /\ Height(rres.table) = 0) => rres.by = 3

\* an entirely empty source went through all three strategies and raised
C9_Witness ==
    /\ rsrc.exists
    /\ rsrc.text.empty
    /\ rpc = "raised"
    /\ Len(tried) = 3
    /\ rres.error = "Unable to read CSV.GZ file"

(***************************************************************************)
(* Claims about the flow (checked under Spec).                             *)
(***************************************************************************)
\* C5: a run ends completed or failed; it completes only after the
\* validator accepted the output of a successful write, and a validation
\* that returned False or raised makes the run fail.
C5_SuccessOnlyIfValidated ==
    /\ fpc = "completed" =>
          /\ attempts["validate"] = 1
          /\ vr.status = "true"
          /\ wr.status = "ok"
          /\ failedAt = "none"
          /\ \A t \in {"locate", "normalize", "validate"} : failures[t] = 0
    /\ (attempts["validate"] = 1 /\ vr.status # "true") =>
          /\ fpc = "failed"
          /\ failedAt = "validate"
    /\ fpc = "failed" <=> failedAt # "none"

\* the write succeeded, the validator raised, the run failed
C5_Witness ==
    /\ fpc = "failed"
    /\ failedAt = "validate"
    /\ wr.status = "ok"
    /\ vr.status \in {"no_output", "read_error"}

\* retries granted so far to task t (failures that did not end the run)
Retried(t) == failures[t] - (IF failedAt = t THEN 1 ELSE 0)

\* C10: only read and write are retried, each attempt but the first after
\* a failed one, at most 3 times, 5 seconds apart; the 4th failure ends
\* the run; locate, normalize and validate are attempted at most once and
\* their first failure ends the run.
C10_RetryPolicy ==
    /\ \A t \in {"locate", "normalize", "validate"} :
          /\ attempts[t] <= 1
          /\ failures[t] = 1 => (fpc = "failed" /\ failedAt = t)
    /\ \A t \in {"read", "write"} :
          /\ attempts[t] <= 1 + 3
          /\ failures[t] = 1 + 3 => (fpc = "failed" /\ failedAt = t)
          /\ failedAt = t => failures[t] = 1 + 3
    /\ \A t \in Tasks :
          /\ failures[t] <= attempts[t]
          /\ attempts[t] <= failures[t] + 1
    /\ slept = 5 * (Retried("read") + Retried("write"))
    /\ Retried("locate") + Retried("normalize") + Retried("validate") = 0

\* the read was retried once, the write failed four times and ended the run
C10_Witness ==
    /\ fpc = "failed"
    /\ failedAt = "write"
    /\ attempts["write"] = 4
    /\ attempts["read"] = 2
    /\ slept = 20

(***************************************************************************)
(* C11: for every input table and every target schema, the table           *)
(* normalize_dataframe_to_schema returns has exactly the target schema as  *)
(* its column list: the same columns, in the same order.                   *)
(***************************************************************************)
C11_ColumnsEqualSchema ==
    nr.calls >= 1 => nr.first.columns = nr.schema_cols

\* a call on a table with an extra column, a missing column and the shared
\* columns in another order than the schema's
C11_Witness ==
    /\ nr.calls >= 1
    /\ nr.df.columns = <<"D", "B", "A">>
    /\ nr.schema_cols = TargetSchema
    /\ Height(nr.df) >= 1
    /\ nr.first.columns = TargetSchema

(***************************************************************************)
(* C12: normalization is idempotent: normalizing the result of a           *)
(* normalization against the same schema returns a table with the same     *)
(* columns, the same number of rows and the same cell everywhere.          *)
(***************************************************************************)
C12_Idempotent ==
    nr.calls = 2 =>
        /\ nr.second.columns = nr.first.columns
        /\ Height(nr.second) = Height(nr.first)
        /\ \A r \in 1..Height(nr.first) : \A j \in 1..Len(nr.first.columns) :
                nr.second.rows[r][j] = nr.first.rows[r][j]

\* both calls made, the first of which changed columns and cells of its input
C12_Witness ==
    /\ nr.calls = 2
    /\ Height(nr.first) >= 2
    /\ nr.first.columns # nr.df.columns
    /\ \E c \in Range(nr.df.columns) \cap Range(nr.schema_cols) :
         \E r \in 1..Height(nr.df) :
            /\ nr.df.rows[r][IndexOf(nr.df.columns, c)].t = "int"
            /\ nr.first.rows[r][IndexOf(nr.first.columns, c)].t = "str"
    /\ \E r \in 1..Height(nr.first) : \E j \in 1..Len(nr.first.columns) :
            nr.first.rows[r][j] = Str("x")

(***************************************************************************)
(* C13: every cell of the table normalize_dataframe_to_schema returns is a *)
(* string; a null of the input has become the empty string and a column    *)
(* missing from the input holds an empty string for each input row.        *)
(***************************************************************************)
C13_EveryCellString ==
    nr.calls >= 1 =>
        /\ Height(nr.first) = Height(nr.df)
        /\ \A r \in 1..Height(nr.first) : \A j \in 1..Len(nr.first.columns) :
            LET c == nr.first.columns[j] IN
                /\ nr.first.rows[r][j].t = "str"
                /\ c \notin Range(nr.df.columns) => nr.first.rows[r][j] = Str("")
                /\ (c \in Range(nr.df.columns)
                        /\ nr.df.rows[r][IndexOf(nr.df.columns, c)] = Null)
                    => nr.first.rows[r][j] = Str("")

(***************************************************************************)
(* C14: write_parquet_parts on a zero-row normalized table creates the     *)
(* output directory if it is missing, writes no part file and succeeds,    *)
(* and the empty directory it leaves is accepted as valid output by the    *)
(* step that consumes it, validate_output_schema.                          *)
(***************************************************************************)
C14_ZeroRowWriteIsValidOutput ==
    (wr.status = "ok" /\ wr.df.columns = TargetSchema /\ Height(wr.df) = 0) =>
        /\ outDir.exists
        /\ wr.written = <<>>
        /\ (DOMAIN outDir.files = {} /\ vr.status # "none") => vr.status = "true"

(***************************************************************************)
(* C15: when the write of part i fails, write_parquet_parts fails as a     *)
(* whole; the parts 0..i-1 it wrote before are on disk with the rows it    *)
(* wrote, and no file of an index above i was written, changed or removed  *)
(* by the call.                                                            *)
(***************************************************************************)
C15_FailedWriteKeepsEarlierParts ==
    [][wr'.status = "error" =>
          LET i == Len(wr'.written)
              c == wr'.chunk
              n == Height(wr'.df)
          IN  /\ i * c < n
              /\ \A k \in 0..(i - 1) :
                    /\ wr'.written[k + 1].idx = k
                    /\ k \in DOMAIN outDir'.files
                    /\ outDir'.files[k] = File(Slice(wr'.df, k * c, Min(c, n - k * c)))
              /\ \A k \in DOMAIN outDir.files \union DOMAIN outDir'.files :
                    k > i => /\ k \in DOMAIN outDir.files
                             /\ k \in DOMAIN outDir'.files
                             /\ outDir'.files[k] = outDir.files[k]]_vars

\* a call that failed at part 1, after writing part 0, on a directory that
\* holds a part 2 of an earlier call
C15_Witness ==
    /\ wr.status = "error"
    /\ Len(wr.written) = 1
    /\ wr.existed
    /\ 0 \in DOMAIN outDir.files
    /\ outDir.files[0] = File(Slice(wr.df, 0, wr.chunk))
    /\ 2 \in DOMAIN outDir.files

\* the part of the directory whose file name sorts before every other's
LeastName(dir) ==
    CHOOSE k \in DOMAIN dir.files :
        \A j \in DOMAIN dir.files \ {k} : LexLess(PartFilename(k), PartFilename(j))

(***************************************************************************)
(* C16: validate_output_schema raises "no parquet output parts found"      *)
(* exactly when the directory is absent or holds no part file, and then    *)
(* returns neither True nor False; otherwise its outcome is that of the    *)
(* part whose file name sorts first, whatever the other parts hold.        *)
(***************************************************************************)
C16_NoOutputIffNoParts ==
    vr.status # "none" =>
        /\ vr.status = "no_output" <=> (~outDir.exists \/ DOMAIN outDir.files = {})
        /\ vr.status # "no_output" =>
            LET f == outDir.files[LeastName(outDir)]
            IN  /\ vr.first = LeastName(outDir)
                /\ vr.status = "read_error" <=> ~f.readable
                /\ vr.status = "true" <=>
                      (f.readable /\ Range(TargetSchema) \subseteq Range(f.table.columns))

\* a directory accepted on its first part although its second part is
\* unreadable or lacks a target column
C16_Witness ==
    /\ vr.status = "true"
    /\ DOMAIN outDir.files = {0, 1}
    /\ vr.first = 0
    /\ \/ ~outDir.files[1].readable
       \/ ~(Range(TargetSchema) \subseteq Range(outDir.files[1].table.columns))

\* the tasks in the order layer1_flow calls them
StepOrder == <<"locate", "read", "normalize", "write", "validate">>

\* a task has been attempted only if the task before it returned, on its
\* last attempt; a failed run attempted nothing after the task that failed
StepsInOrder ==
    /\ \A k \in 2..Len(StepOrder) :
          attempts[StepOrder[k]] >= 1 =>
              attempts[StepOrder[k - 1]] = failures[StepOrder[k - 1]] + 1
    /\ fpc = "failed" =>
          \E k \in 1..Len(StepOrder) :
              /\ failedAt = StepOrder[k]
              /\ failures[failedAt] = attempts[failedAt]
              /\ \A j \in (k + 1)..Len(StepOrder) : attempts[StepOrder[j]] = 0
    /\ fpc = "completed" =>
          \A t \in Tasks : attempts[t] = failures[t] + 1

(***************************************************************************)
(* C17: a run executes locate, read, normalize, write, validate in this    *)
(* order, each task starting only after the one before it returned; after  *)
(* a task has failed for good nothing runs but a new run.  A run whose     *)
(* source file is absent fails at its single attempt of locate: nothing is *)
(* read and the output directory is left as it was.                        *)
(***************************************************************************)
C17_StepsInOrder ==
    [][/\ StepsInOrder'
       /\ fpc = "failed" => (fpc' = "locate" /\ attempts' = NoAttempts)
       /\ ~inputFile'.exists =>
            /\ outDir' = outDir
            /\ attempts'["locate"] <= 1
            /\ attempts'["read"] = 0
            /\ rpc' = "idle" /\ tried' = <<>>
            /\ fpc' \in {"locate", "failed"}
            /\ fpc' = "failed" => failedAt' = "locate"]_vars

\* a run on an absent source file that failed at locate, beside the output
\* directory an earlier run filled
C17_Witness ==
    /\ fpc = "failed"
    /\ failedAt = "locate"
    /\ ~inputFile.exists
    /\ attempts["locate"] = 1
    /\ attempts["read"] = 0
    /\ outDir.exists
    /\ DOMAIN outDir.files # {}

====
